---- MODULE Spec2Model ----
(***************************************************************************)
(* Model of the leboncoin crawler: the crawl loop of ScraperEngine         *)
(* (src/main.py) and the URL query builder (src/url_parsing.py).           *)
(*                                                                         *)
(* Time is measured in hours.  config.max_age_days is a fixed-point value  *)
(* scaled by HoursPerDay (7 days = 168), so that fractional thresholds     *)
(* are representable; timedelta.days is the floor of hours / HoursPerDay.  *)
(***************************************************************************)
EXTENDS Integers, Sequences, FiniteSets, TLC

(***************************************************************************)
(* Bounds of the model                                                     *)
(***************************************************************************)
MaxPageLen == 2       \* length of the short pages
MaxPages == 3         \* largest page ceiling of the general runs

(***************************************************************************)
(* Program constants                                                       *)
(***************************************************************************)
consecutive_old_limit == 5
batch_size == 10
DefaultMaxPages == 100
HoursPerDay == 24

(***************************************************************************)
(* Generic helpers                                                         *)
(***************************************************************************)
RECURSIVE Flatten(_)
Flatten(batches) ==
    IF batches = <<>> THEN <<>> ELSE Head(batches) \o Flatten(Tail(batches))

IdsOf(records) == {records[i].id : i \in 1..Len(records)}

(***************************************************************************)
(* Strings are sequences of one-character strings.                         *)
(***************************************************************************)
Key ==
    [text |-> <<"t", "e", "x", "t">>,
     category |-> <<"c", "a", "t", "e", "g", "o", "r", "y">>,
     locations |-> <<"l", "o", "c", "a", "t", "i", "o", "n", "s">>,
     owner_type |-> <<"o", "w", "n", "e", "r", "_", "t", "y", "p", "e">>,
     sort |-> <<"s", "o", "r", "t">>,
     order |-> <<"o", "r", "d", "e", "r">>,
     ad_type |-> <<"a", "d", "_", "t", "y", "p", "e">>,
     shippable |-> <<"s", "h", "i", "p", "p", "a", "b", "l", "e">>,
     page |-> <<"p", "a", "g", "e">>,
     limit |-> <<"l", "i", "m", "i", "t">>,
     price |-> <<"p", "r", "i", "c", "e">>,
     min |-> <<"m", "i", "n">>,
     max |-> <<"m", "a", "x">>,
     private |-> <<"p", "r", "i", "v", "a", "t", "e">>,
     pro |-> <<"p", "r", "o">>,
     time |-> <<"t", "i", "m", "e">>,
     price_asc |-> <<"p", "r", "i", "c", "e", "_", "a", "s", "c">>,
     price_desc |-> <<"p", "r", "i", "c", "e", "_", "d", "e", "s", "c">>,
     relevance |-> <<"r", "e", "l", "e", "v", "a", "n", "c", "e">>,
     offer |-> <<"o", "f", "f", "e", "r">>,
     demand |-> <<"d", "e", "m", "a", "n", "d">>,
     desc |-> <<"d", "e", "s", "c">>,
     asc |-> <<"a", "s", "c">>,
     rooms |-> <<"r", "o", "o", "m", "s">>,
     mileage |-> <<"m", "i", "l", "e", "a", "g", "e">>,
     u_car_brand |-> <<"u", "_", "c", "a", "r", "_", "b", "r", "a", "n", "d">>]

StartsWith(s, prefix) ==
    Len(s) >= Len(prefix) /\ SubSeq(s, 1, Len(prefix)) = prefix

Drop(s, n) == SubSeq(s, n + 1, Len(s))

\* sub in s
Contains(s, sub) ==
    \E i \in 1..(Len(s) - Len(sub) + 1) : SubSeq(s, i, i + Len(sub) - 1) = sub

\* s.split(sep): cut at the leftmost occurrence of sep, then split the rest
RECURSIVE Split(_, _)
Split(s, sep) ==
    LET hits == {i \in 1..(Len(s) - Len(sep) + 1) :
                    SubSeq(s, i, i + Len(sep) - 1) = sep}
    IN  IF hits = {} THEN <<s>>
        ELSE LET first == CHOOSE i \in hits : \A j \in hits : i <= j
             IN  <<SubSeq(s, 1, first - 1)>>
                   \o Split(Drop(s, first + Len(sep) - 1), sep)

\* sep.join(parts)
RECURSIVE Join(_, _)
Join(parts, sep) ==
    IF parts = <<>> THEN <<>>
    ELSE IF Len(parts) = 1 THEN parts[1]
    ELSE parts[1] \o sep \o Join(Tail(parts), sep)

\* s.split(sep, 1) of a string that contains sep
SplitOnce(s, sep) ==
    LET parts == Split(s, sep)
    IN  <<parts[1], Join(Tail(parts), sep)>>

\* s.strip(), for the blank character
RECURSIVE strip(_)
strip(s) ==
    IF s # <<>> /\ Head(s) = " " THEN strip(Tail(s))
    ELSE IF s # <<>> /\ s[Len(s)] = " " THEN strip(SubSeq(s, 1, Len(s) - 1))
    ELSE s

DigitChars == <<"0", "1", "2", "3", "4", "5", "6", "7", "8", "9">>
IsDigit(c) == \E d \in 1..10 : DigitChars[d] = c
DigitVal(c) == (CHOOSE d \in 1..10 : DigitChars[d] = c) - 1

\* s.isdigit()
isdigit(s) == s # <<>> /\ \A i \in 1..Len(s) : IsDigit(s[i])

RECURSIVE DigitsVal(_)
DigitsVal(s) ==
    IF s = <<>> THEN 0
    ELSE DigitsVal(SubSeq(s, 1, Len(s) - 1)) * 10 + DigitVal(s[Len(s)])

\* int(s): ok is FALSE where Python raises ValueError.  Decimal digits with
\* an optional sign; blanks and underscores do not occur in the inputs.
ParseInt(s) ==
    LET signed == s # <<>> /\ s[1] \in {"-", "+"}
        body == IF signed THEN Tail(s) ELSE s
    IN  [ok |-> isdigit(body),
         v |-> IF ~isdigit(body) THEN 0
               ELSE IF signed /\ s[1] = "-" THEN 0 - DigitsVal(body)
               ELSE DigitsVal(body)]

\* str(n) of an integer
RECURSIVE NatToStr(_)
NatToStr(n) ==
    IF n < 10 THEN <<DigitChars[n + 1]>>
    ELSE NatToStr(n \div 10) \o <<DigitChars[(n % 10) + 1]>>

IntToStr(n) == IF n < 0 THEN <<"-">> \o NatToStr(0 - n) ELSE NatToStr(n)

\* float(s), as a fixed-point number with FloatDigits decimals (further
\* decimals are dropped): an optional sign, digits, an optional fraction.
FloatDigits == 4
FloatScale == 10000

ParseFloat(s) ==
    LET signed == s # <<>> /\ s[1] \in {"-", "+"}
        body == IF signed THEN Tail(s) ELSE s
        parts == Split(body, <<".">>)
        whole == parts[1]
        frac == IF Len(parts) > 1 THEN parts[2] ELSE <<>>
        ok == /\ Len(parts) <= 2
              /\ whole \o frac # <<>>
              /\ \A i \in 1..Len(whole) : IsDigit(whole[i])
              /\ \A i \in 1..Len(frac) : IsDigit(frac[i])
        padded == SubSeq(frac \o <<"0", "0", "0", "0">>, 1, FloatDigits)
        mag == DigitsVal(whole) * FloatScale + DigitsVal(padded)
    IN  [ok |-> ok,
         v |-> IF ~ok THEN 0 ELSE IF signed /\ s[1] = "-" THEN 0 - mag ELSE mag]

\* urllib.parse.unquote, for the escapes of the characters the parser
\* splits on; any other "%" is left as it is.
PercentEscapes ==
    {[hex |-> <<"2", "D">>, ch |-> "-"], [hex |-> <<"2", "C">>, ch |-> ","],
     [hex |-> <<"5", "F">>, ch |-> "_"]}

IsEscapeAt(s, i) ==
    /\ s[i] = "%"
    /\ i + 2 <= Len(s)
    /\ \E e \in PercentEscapes : e.hex = <<s[i + 1], s[i + 2]>>

RECURSIVE unquote(_)
unquote(s) ==
    LET hits == {i \in 1..Len(s) : IsEscapeAt(s, i)}
    IN  IF hits = {} THEN s
        ELSE LET first == CHOOSE i \in hits : \A j \in hits : i <= j
                 e == CHOOSE e \in PercentEscapes :
                          e.hex = <<s[first + 1], s[first + 2]>>
             IN  SubSeq(s, 1, first - 1) \o <<e.ch>>
                   \o unquote(Drop(s, first + 2))

\* s.lower()
UpperChars == <<"A", "B", "C", "D", "E", "F", "G", "H", "I", "J", "K", "L", "M", "N", "O", "P", "Q", "R", "S", "T", "U", "V", "W", "X", "Y", "Z">>
LowerChars == <<"a", "b", "c", "d", "e", "f", "g", "h", "i", "j", "k", "l", "m", "n", "o", "p", "q", "r", "s", "t", "u", "v", "w", "x", "y", "z">>

lower(s) ==
    [i \in 1..Len(s) |->
        IF \E k \in 1..26 : UpperChars[k] = s[i]
          THEN LowerChars[CHOOSE k \in 1..26 : UpperChars[k] = s[i]]
          ELSE s[i]]

\* s.replace(a, b) for one-character a and b
replace(s, a, b) == [i \in 1..Len(s) |-> IF s[i] = a THEN b ELSE s[i]]

(***************************************************************************)
(* Values of a search configuration, tagged with their Python type         *)
(***************************************************************************)
IntV(n) == [t |-> "int", v |-> n]
StrV(s) == [t |-> "str", v |-> s]
BoolV(b) == [t |-> "bool", v |-> b]
TupleV(lo, hi) == [t |-> "tuple", lo |-> lo, hi |-> hi]
ListV(items) == [t |-> "list", items |-> items]
EnumV(cls, member) == [t |-> "enum", cls |-> cls, member |-> member]

NoArgs == [k \in {} |-> 0]

\* d[key] = value
DictSet(d, key, value) ==
    [k \in DOMAIN d \cup {key} |-> IF k = key THEN value ELSE d[k]]

\* d.update(other)
DictUpdate(d, other) ==
    [k \in DOMAIN d \cup DOMAIN other |->
        IF k \in DOMAIN other THEN other[k] ELSE d[k]]

\* d.setdefault(key, value)
DictSetDefault(d, key, value) ==
    IF key \in DOMAIN d THEN d ELSE DictSet(d, key, value)

(***************************************************************************)
(* Listings returned by the search client.                                 *)
(*   id       : 0 models a missing or falsy identifier                     *)
(*   has_date : first_publication_date present and truthy                  *)
(*   age      : now - first_publication_date, in hours                     *)
(*   bad      : "ok", "age" (the date is not a datetime, the subtraction   *)
(*              raises) or "norm" (create_detailed_ad raises)              *)
(***************************************************************************)
Ad(id, has_date, age, bad) ==
    [id |-> id, has_date |-> has_date, age |-> age, bad |-> bad]

FreshAge == 2 * HoursPerDay
OldAge == 10 * HoursPerDay

VARIABLES
    input_data,       \* the actor input
    config,           \* Config: the run's parameters
    pc,               \* position of the scrape_from_url coroutine
    seen_ids,         \* ScraperEngine.seen_ids
    stats,            \* ScraperEngine.stats
    all_ads,          \* scrape_from_url local: the output sequence
    batch_ads,        \* scrape_from_url local: the batch buffer
    page,             \* scrape_from_url local: current page index
    page_ads,         \* scrape_from_url local: records of the last page
    should_stop,      \* scrape_from_url local: stop signal of the last page
    sink,             \* batches received by ApifyAdapter.push_data
    requests,         \* keyword arguments of the client.search calls so far
    client,           \* which mocked search client answers the requests
    hist              \* history of the run, read by the properties only

vars == <<input_data, config, pc, seen_ids, stats, all_ads, batch_ads, page, page_ads,
          should_stop, sink, requests, client, hist>>

(***************************************************************************)
(* AdTransformer.create_detailed_ad: the public attributes of the listing  *)
(* plus the provenance tags of the search context.                         *)
(***************************************************************************)
create_detailed_ad(ad, search_context) ==
    [id |-> ad.id, has_date |-> ad.has_date, age |-> ad.age,
     search_category |-> search_context.category,
     search_location |-> search_context.location]

search_context == [category |-> "URL", location |-> "Direct URL"]

(***************************************************************************)
(* The crawl loop's age gate: (now - date).days > max_age_days             *)
(***************************************************************************)
ad_age_days(ad) == ad.age \div HoursPerDay

\* the gate with the age and the threshold in different units
AgeGateOld_unscaled(ad, max_age_days) ==
    ad.age > max_age_days * HoursPerDay

AgeGateOld(ad, max_age_days) ==
    ad_age_days(ad) * HoursPerDay > max_age_days

\* the counter left as it is by a listing the gate lets through
ResetOldCount_keeps_count(acc) == acc

\* line 930: old_ads_count = 0
ResetOldCount(acc) == [acc EXCEPT !.old_ads_count = 0]

(***************************************************************************)
(* The for loop of _scrape_single_page over result.ads, from listing i on. *)
(* acc carries page_ads, old_ads_count, seen_ids and the two counters the  *)
(* loop changes.  The result says how the loop ended:                      *)
(*   raised  : an exception left the loop (caught by the outer handler)    *)
(*   stopped : the age gate returned (page_ads, True)                      *)
(*   scanned : number of listings the loop looked at                       *)
(***************************************************************************)
RECURSIVE ProcessAds(_, _, _, _)
ProcessAds(ads, i, acc, cfg) ==
    IF i > Len(ads) THEN [acc EXCEPT !.scanned = Len(ads)]
    ELSE LET ad == ads[i] IN
      IF ad.id = 0 THEN ProcessAds(ads, i + 1, acc, cfg)
      ELSE IF ad.id \in acc.seen_ids
        THEN ProcessAds(ads, i + 1,
                        [acc EXCEPT !.duplicates = @ + 1], cfg)
      ELSE IF cfg.max_age_days > 0 /\ ad.has_date /\ ad.bad = "age"
        THEN [acc EXCEPT !.raised = TRUE, !.scanned = i]
      ELSE IF cfg.max_age_days > 0 /\ ad.has_date
              /\ AgeGateOld(ad, cfg.max_age_days)
        THEN IF acc.old_ads_count + 1 >= consecutive_old_limit
               THEN [acc EXCEPT !.old_ads_count = @ + 1,
                                !.stopped = TRUE, !.scanned = i]
               ELSE ProcessAds(ads, i + 1,
                               [acc EXCEPT !.old_ads_count = @ + 1], cfg)
      ELSE IF ad.bad = "norm"
        THEN ProcessAds(ads, i + 1,
                        [ResetOldCount(acc) EXCEPT !.errors = @ + 1], cfg)
      ELSE ProcessAds(ads, i + 1,
                      [ResetOldCount(acc) EXCEPT
                                  !.seen_ids = @ \cup {ad.id},
                                  !.page_ads =
                                     Append(@, create_detailed_ad(ad, search_context))],
                      cfg)

(***************************************************************************)
(* ScraperEngine._scrape_single_page.  resp is what client.search does:    *)
(* [kind |-> "error"] (it raises) or [kind |-> "ok", ads |-> listings].    *)
(* Returns page_ads and should_stop together with the new seen_ids and     *)
(* the new duplicates and errors counters.                                 *)
(***************************************************************************)
\* the page processed without the count of the skipped duplicates
_scrape_single_page_uncounted(resp, seen, st, cfg) ==
    LET acc0 == [page_ads |-> <<>>, old_ads_count |-> 0, seen_ids |-> seen,
                 duplicates |-> st.duplicates, errors |-> st.errors,
                 raised |-> FALSE, stopped |-> FALSE, scanned |-> 0]
    IN  IF resp.kind = "error"
          THEN [acc0 EXCEPT !.errors = @ + 1, !.raised = TRUE] @@
               [should_stop |-> TRUE]
        ELSE IF resp.ads = <<>>
          THEN acc0 @@ [should_stop |-> TRUE]
        ELSE LET r == ProcessAds(resp.ads, 1, acc0, cfg) IN
             IF r.raised
               THEN [r EXCEPT !.page_ads = <<>>, !.errors = @ + 1,
                              !.duplicates = st.duplicates] @@
                    [should_stop |-> TRUE]
               ELSE [r EXCEPT !.duplicates = st.duplicates] @@
                    [should_stop |-> r.stopped]

\* the page processed against the identifiers of this page only
_scrape_single_page_page_local(resp, seen, st, cfg) ==
    LET acc0 == [page_ads |-> <<>>, old_ads_count |-> 0, seen_ids |-> {},
                 duplicates |-> st.duplicates, errors |-> st.errors,
                 raised |-> FALSE, stopped |-> FALSE, scanned |-> 0]
    IN  IF resp.kind = "error"
          THEN [acc0 EXCEPT !.errors = @ + 1, !.raised = TRUE, !.seen_ids = seen] @@
               [should_stop |-> TRUE]
        ELSE IF resp.ads = <<>>
          THEN [acc0 EXCEPT !.seen_ids = seen] @@ [should_stop |-> TRUE]
        ELSE LET r == ProcessAds(resp.ads, 1, acc0, cfg) IN
             IF r.raised
               THEN [r EXCEPT !.page_ads = <<>>, !.errors = @ + 1,
                              !.seen_ids = @ \cup seen] @@
                    [should_stop |-> TRUE]
               ELSE [r EXCEPT !.seen_ids = @ \cup seen] @@
                    [should_stop |-> r.stopped]

_scrape_single_page(resp, seen, st, cfg) ==
    LET acc0 == [page_ads |-> <<>>, old_ads_count |-> 0, seen_ids |-> seen,
                 duplicates |-> st.duplicates, errors |-> st.errors,
                 raised |-> FALSE, stopped |-> FALSE, scanned |-> 0]
    IN  IF resp.kind = "error"
          THEN [acc0 EXCEPT !.errors = @ + 1, !.raised = TRUE] @@
               [should_stop |-> TRUE]
        ELSE IF resp.ads = <<>>
          THEN acc0 @@ [should_stop |-> TRUE]
        ELSE LET r == ProcessAds(resp.ads, 1, acc0, cfg) IN
             IF r.raised
               THEN [r EXCEPT !.page_ads = <<>>, !.errors = @ + 1] @@
                    [should_stop |-> TRUE]
               ELSE r @@ [should_stop |-> r.stopped]

(***************************************************************************)
(* The keyword arguments of one search request                             *)
(***************************************************************************)
\* the arguments of the configuration winning over the loop's
SearchKwargs_keeps_given(search_args, page_num, limit) ==
    DictSetDefault(DictSetDefault(search_args, Key.page, IntV(page_num)),
                   Key.limit, IntV(limit))

\* lines 889-892: a copy of config.search_args, with page and limit set
SearchKwargs(search_args, page_num, limit) ==
    DictSet(DictSet(search_args, Key.page, IntV(page_num)), Key.limit, IntV(limit))

(***************************************************************************)
(* The mocked search client of the general runs                            *)
(***************************************************************************)
\* The identifiers: 0 (missing), 1 and 2 on the short pages, 9 for the old
\* listings, 10 * p for the dated listing that is new on page p and
\* 10 * p + i for the listings of the full page p.
ShortAds ==
    {Ad(i, FALSE, 0, "ok") : i \in {0, 1, 2}}
      \cup {Ad(1, FALSE, 0, "norm"), Ad(2, TRUE, FreshAge, "age")}

\* The short pages: one listing, followed by up to MaxPageLen - 1 copies of
\* another (or of the same) listing.
ShortPages ==
    {<<>>} \cup
    {<<x>> \o [i \in 1..k |-> y] :
        x \in ShortAds, y \in ShortAds, k \in 0..(MaxPageLen - 1)}

\* The dated pages: runs of old listings around at most one listing that
\* passes the age gate, which is either new on page p or a repetition of
\* identifier 1.  The runs are empty, short, or as long as the gate needs.
OldAd == Ad(9, TRUE, OldAge, "ok")
OldRun(n) == [i \in 1..n |-> OldAd]
OldRunLens == {0, 1, consecutive_old_limit - 1, consecutive_old_limit}

DatedPages(p) ==
    {OldRun(n) : n \in {1, consecutive_old_limit, consecutive_old_limit + 1}}
      \cup {OldRun(a) \o <<m>> \o OldRun(b) :
               a \in OldRunLens, b \in OldRunLens,
               m \in {Ad(10 * p, TRUE, FreshAge, "ok"), Ad(1, FALSE, 0, "ok")}}

\* a page of new listings, two of which fill a batch of one-listing pages
FullPageLen == batch_size \div 2
FullPage(p) == [i \in 1..FullPageLen |-> Ad(10 * p + i, TRUE, FreshAge, "ok")]

Pages(p) ==
    ShortPages
      \cup {d \in DatedPages(p) : Len(d) <= consecutive_old_limit + 2}
      \cup {FullPage(p)}

(***************************************************************************)
(* The mocked search clients of the end-to-end scenarios.  A full page     *)
(* holds limit_per_page fresh listings whose identifiers are new.          *)
(*   B : every page is full                                                *)
(*   C : as B, but page 2 holds 5 listings repeating identifiers of *)
(*       page 1, followed by client.fresh2 fresh listings                  *)
(*   D : page 1 holds client.fresh fresh listings followed by              *)
(*       consecutive_old_limit listings of age client.old_age              *)
(***************************************************************************)
FreshRun(first, n) == [i \in 1..n |-> Ad(first + i - 1, TRUE, FreshAge, "ok")]

FullScenarioPage(p) ==
    FreshRun((p - 1) * config.limit_per_page + 1, config.limit_per_page)

ScenarioPage(p) ==
    IF client.kind = "C" /\ p = 2
      THEN FreshRun(1, 5) \o FreshRun(config.limit_per_page + 1, client.fresh2)
    ELSE IF client.kind = "D" /\ p = 1
      THEN FreshRun(1, client.fresh) \o
           [i \in 1..consecutive_old_limit |->
               Ad(1000 + i, TRUE, client.old_age, "ok")]
    ELSE FullScenarioPage(p)

Responses(p) ==
    IF client.kind = "any"
      THEN {[kind |-> "ok", ads |-> a] : a \in Pages(p)}
             \cup {[kind |-> "error", datadome |-> d] : d \in BOOLEAN}
    ELSE IF client.kind = "short"
      THEN {[kind |-> "ok", ads |-> a] : a \in ShortPages}
    ELSE IF client.kind = "dated"
      THEN {[kind |-> "ok", ads |-> a] : a \in DatedPages(p)}
    ELSE IF client.kind = "endless"
      THEN {[kind |-> "ok", ads |-> a] :
               a \in {FullScenarioPage(p), FreshRun(1, 1), <<>>}}
             \cup {[kind |-> "error", datadome |-> FALSE]}
    ELSE {[kind |-> "ok", ads |-> ScenarioPage(p)]}

(***************************************************************************)
(* Reference walks over a returned page, used by the history variable.     *)
(***************************************************************************)
\* A listing the crawl keeps when its identifier has not been emitted yet
Retained(ad, cfg) ==
    /\ ad.id # 0
    /\ ad.bad # "norm"
    /\ ~(cfg.max_age_days > 0 /\ ad.has_date /\ ad.bad = "age")
    /\ ~(cfg.max_age_days > 0 /\ ad.has_date
           /\ AgeGateOld(ad, cfg.max_age_days))

\* Listings 1..n of a page, given the identifiers emitted before the page:
\* later counts the listings whose identifier was emitted earlier in the
\* run, kept is the sequence of the first occurrences.
RECURSIVE Occurrences(_, _, _, _)
Occurrences(ads, n, emitted, cfg) ==
    IF n = 0 THEN [emitted |-> emitted, later |-> 0, kept |-> <<>>]
    ELSE LET prev == Occurrences(ads, n - 1, emitted, cfg)
             ad == ads[n]
         IN  IF ad.id # 0 /\ ad.id \in prev.emitted
               THEN [prev EXCEPT !.later = @ + 1]
             ELSE IF Retained(ad, cfg)
               THEN [prev EXCEPT !.emitted = @ \cup {ad.id},
                                 !.kept = Append(@, create_detailed_ad(ad, search_context))]
             ELSE prev

\* The consecutive-old streak of the page stream: listings 1..n of a page,
\* starting from the streak s.streak left by the pages before it.
RECURSIVE StreamStreak(_, _, _, _)
StreamStreak(ads, n, s, cfg) ==
    IF n = 0 THEN s
    ELSE LET prev == StreamStreak(ads, n - 1, s, cfg)
             ad == ads[n]
         IN  IF prev.hit \/ ad.id = 0 \/ ad.id \in prev.seen THEN prev
             ELSE IF cfg.max_age_days > 0 /\ ad.has_date
                     /\ AgeGateOld(ad, cfg.max_age_days)
               THEN [prev EXCEPT !.streak = @ + 1,
                                 !.hit = (prev.streak + 1 >= consecutive_old_limit)]
             ELSE [prev EXCEPT !.streak = 0,
                               !.seen = IF ad.bad = "norm" THEN @ ELSE @ \cup {ad.id}]

\* The listings the age gate examines among listings 1..n of a page (those
\* with an identifier not recorded yet), classified by their publication
\* time alone: streak is the number of listings older than the threshold
\* since the last one that is not, reset tells that a listing not older
\* than the threshold came after an older one.
RECURSIVE RecentOld(_, _, _, _)
RecentOld(ads, n, s, cfg) ==
    IF n = 0 THEN s
    ELSE LET prev == RecentOld(ads, n - 1, s, cfg)
             ad == ads[n]
         IN  IF ad.id = 0 \/ ad.id \in prev.seen THEN prev
             ELSE IF ad.has_date /\ ad.age > cfg.max_age_days
               THEN [prev EXCEPT !.streak = @ + 1]
             ELSE [prev EXCEPT !.streak = 0,
                               !.reset = @ \/ prev.streak > 0,
                               !.seen = IF ad.bad = "norm" THEN @ ELSE @ \cup {ad.id}]

InitHist ==
    [later_returned |-> 0,     \* later occurrences on the returned pages
                               \* (up to the listing that raised, if any)
     later_examined |-> 0,     \* later occurrences the page loops reached
     first_occurrences |-> <<>>, \* first occurrences, in stream order
     old_ads_streak |-> 0,     \* consecutive-old streak of the page stream
     gate_page |-> 0,          \* page on which that streak reached the limit
     err_page |-> 0,           \* page whose fetch raised
     err_errors |-> 0,         \* stats.errors before that fetch
     err_all_ads |-> <<>>,     \* output sequence before that fetch
     url_args |-> <<>>,        \* the arguments the parsed URL was built from
     last_nonempty |-> FALSE,  \* the last returned page held a listing
     last_signal |-> FALSE,    \* the last page ended on a gate stop or an error
     last_errors |-> 0,        \* stats.errors before the last page
     gate_stopped |-> FALSE,   \* the age gate returned (page_ads, True)
     raise_seen |-> FALSE,     \* a listing raised outside create_detailed_ad
     raise_errors |-> 0,       \* stats.errors before the page of that listing
     raise_kept |-> 0,         \* records its page had accumulated before it
     raise_all_ads |-> 0,      \* length of the output before that page
     queries |-> 1,            \* executions of scrape_from_url on this engine
     prior_ids |-> {},         \* identifiers emitted by the earlier executions
     prior_seen |-> {},        \* identifiers they recorded (a page whose loop
                               \* raised is dropped, its identifiers stay)
     raw_ad |-> <<>>,          \* the listing object as it was handed over
     recent_old |-> 0,         \* listings older than the threshold the gate
                               \* examined since the last one that is not
     reset_seen |-> FALSE]     \* a listing not older came after an older one

HistAfter(resp, r) ==
    IF resp.kind = "error"
      THEN [hist EXCEPT !.err_page = page,
                        !.err_errors = stats.errors,
                        !.err_all_ads = all_ads,
                        !.last_nonempty = FALSE,
                        !.last_signal = TRUE,
                        !.last_errors = stats.errors]
      ELSE LET emitted == IdsOf(all_ads) \cup hist.prior_seen
               ex == Occurrences(resp.ads, r.scanned, emitted, config)
               lit == Occurrences(resp.ads,
                                  IF r.raised THEN r.scanned ELSE Len(resp.ads),
                                  emitted, config)
               ro == RecentOld(resp.ads, r.scanned,
                               [streak |-> hist.recent_old, seen |-> seen_ids,
                                reset |-> hist.reset_seen], config)
               st == StreamStreak(resp.ads, Len(resp.ads),
                                  [streak |-> hist.old_ads_streak,
                                   seen |-> seen_ids, hit |-> FALSE], config)
           IN  [hist EXCEPT
                  !.later_examined = @ + ex.later,
                  !.later_returned = @ + lit.later,
                  !.first_occurrences = IF r.raised THEN @ ELSE @ \o ex.kept,
                  !.old_ads_streak = IF r.raised THEN @ ELSE st.streak,
                  !.gate_page = IF @ = 0 /\ st.hit /\ ~r.raised THEN page ELSE @,
                  !.last_nonempty = (resp.ads # <<>>),
                  !.last_signal = r.stopped \/ r.raised,
                  !.last_errors = stats.errors,
                  !.gate_stopped = @ \/ r.stopped,
                  !.raise_seen = @ \/ r.raised,
                  !.raise_errors = IF r.raised THEN stats.errors ELSE @,
                  !.raise_kept =
                     IF r.raised
                       THEN Len(Occurrences(resp.ads, r.scanned - 1,
                                            emitted, config).kept)
                       ELSE @,
                  !.raise_all_ads = IF r.raised THEN Len(all_ads) ELSE @,
                  !.recent_old = IF r.raised \/ config.max_age_days <= 0 THEN @
                                 ELSE ro.streak,
                  !.reset_seen = IF r.raised \/ config.max_age_days <= 0 THEN @
                                 ELSE ro.reset]

(***************************************************************************)
(* Config.__init__ and ScraperEngine.__init__                              *)
(***************************************************************************)
\* The inter-page delay and the age gate are tried with one-listing pages,
\* and not together; the end-to-end scenarios below try them with
\* full-size pages.
Configs ==
    {c \in [search_args : {NoArgs, DictSet(NoArgs, Key.limit, IntV(35))},
            max_pages : {1, MaxPages},
            limit_per_page : {1, 35},
            delay_between_pages : {0, 1},
            max_age_days : {0, 7 * HoursPerDay}] :
        /\ c.limit_per_page = 35 =>
              c.delay_between_pages = 0 /\ c.max_age_days = 0
        /\ c.delay_between_pages > 0 => c.max_age_days = 0}

InitStats ==
    [total_ads |-> 0, unique_ads |-> 0, duplicates |-> 0,
     locations_processed |-> 0, pages_processed |-> 0, errors |-> 0]

EngineInit ==
    /\ input_data = [direct_url |-> <<>>]
    /\ pc = "start"
    /\ seen_ids = {}
    /\ stats = InitStats
    /\ all_ads = <<>>
    /\ batch_ads = <<>>
    /\ page = 1
    /\ page_ads = <<>>
    /\ should_stop = FALSE
    /\ sink = <<>>
    /\ requests = <<>>
    /\ hist = InitHist

Init ==
    /\ config \in Configs
    /\ client = [kind |-> "any"]
    /\ EngineInit

(***************************************************************************)
(* scrape_from_url                                                         *)
(***************************************************************************)
\* the ceiling read one too high
max_pages_plus_one ==
    IF config.max_pages > 0 THEN config.max_pages + 1 ELSE DefaultMaxPages

\* the cap of an unbounded run read twice too high
max_pages_cap_doubled ==
    IF config.max_pages > 0 THEN config.max_pages ELSE 2 * DefaultMaxPages

max_pages == IF config.max_pages > 0 THEN config.max_pages ELSE DefaultMaxPages

\* the loop's exit without the push of the remaining records
AfterPush_without_final_push(batch) ==
    IF should_stop' \/ page_ads' = <<>> \/ page >= max_pages
      THEN /\ page' = page
           /\ pc' = "done"
      ELSE /\ page' = page + 1
           /\ pc' = IF config.delay_between_pages > 0 THEN "sleep" ELSE "fetch"

\* the loop going on with the page it has just fetched
AfterPush_same_page(batch) ==
    IF should_stop' \/ page_ads' = <<>> \/ page >= max_pages
      THEN /\ page' = page
           /\ pc' = IF batch # <<>> THEN "final_push" ELSE "done"
      ELSE /\ page' = page
           /\ pc' = IF config.delay_between_pages > 0 THEN "sleep" ELSE "fetch"

\* lines 994-1004: the stop conditions, then either the next iteration or
\* the code after the loop, up to the next await.
AfterPush(batch) ==
    IF should_stop' \/ page_ads' = <<>> \/ page >= max_pages
      THEN /\ page' = page
           /\ pc' = IF batch # <<>> THEN "final_push" ELSE "done"
      ELSE /\ page' = page + 1
           /\ pc' = IF config.delay_between_pages > 0 THEN "sleep" ELSE "fetch"

\* lines 954-971
Start ==
    /\ pc = "start"
    /\ IF DOMAIN config.search_args = {}
         THEN /\ stats' = [stats EXCEPT !.errors = @ + 1]
              /\ pc' = "done"
         ELSE /\ stats' = stats
              /\ pc' = "fetch"
    /\ UNCHANGED <<input_data, config, client, seen_ids, all_ads, batch_ads, page, page_ads,
                   should_stop, sink, requests, hist>>

\* lines 973-988: one page, up to the await of the push or of the sleep
ScrapePage ==
    /\ pc = "fetch"
    /\ \E resp \in Responses(page) :
         LET r == _scrape_single_page(resp, seen_ids, stats, config)
             got == r.page_ads # <<>>
             n == Len(r.page_ads)
         IN  /\ requests' = Append(requests,
                   SearchKwargs(config.search_args, page, config.limit_per_page))
             /\ hist' = HistAfter(resp, r)
             /\ seen_ids' = r.seen_ids
             /\ page_ads' = r.page_ads
             /\ should_stop' = r.should_stop
             /\ all_ads' = all_ads \o r.page_ads
             /\ batch_ads' = batch_ads \o r.page_ads
             /\ stats' = [stats EXCEPT
                            !.duplicates = r.duplicates,
                            !.errors = r.errors,
                            !.total_ads = @ + n,
                            !.unique_ads = @ + n,
                            !.pages_processed = IF got THEN @ + 1 ELSE @]
             /\ IF (Len(batch_ads') >= batch_size * config.limit_per_page
                      \/ should_stop') /\ batch_ads' # <<>>
                  THEN pc' = "push" /\ page' = page
                  ELSE AfterPush(batch_ads')
    /\ UNCHANGED <<input_data, config, client, sink>>

\* line 990: push_data returns
PushBatch ==
    /\ pc = "push"
    /\ sink' = Append(sink, batch_ads)
    /\ batch_ads' = <<>>
    /\ UNCHANGED <<page_ads, should_stop>>
    /\ AfterPush(<<>>)
    /\ UNCHANGED <<input_data, config, client, seen_ids, stats, all_ads, requests, hist>>

\* line 990: push_data raises; nothing in scrape_from_url catches it
PushBatchFails ==
    /\ pc = "push"
    /\ pc' = "crashed"
    /\ UNCHANGED <<input_data, config, client, seen_ids, stats, all_ads, batch_ads, page,
                   page_ads, should_stop, sink, requests, hist>>

\* line 1000: the inter-page delay elapses
Sleep ==
    /\ pc = "sleep"
    /\ pc' = "fetch"
    /\ UNCHANGED <<input_data, config, client, seen_ids, stats, all_ads, batch_ads, page,
                   page_ads, should_stop, sink, requests, hist>>

\* lines 1003-1007: push_data returns, scrape_from_url returns all_ads
FinalPush ==
    /\ pc = "final_push"
    /\ sink' = Append(sink, batch_ads)
    /\ batch_ads' = <<>>
    /\ pc' = "done"
    /\ UNCHANGED <<input_data, config, client, seen_ids, stats, all_ads, page, page_ads,
                   should_stop, requests, hist>>

\* line 1004: push_data raises
FinalPushFails ==
    /\ pc = "final_push"
    /\ pc' = "crashed"
    /\ UNCHANGED <<input_data, config, client, seen_ids, stats, all_ads, batch_ads, page,
                   page_ads, should_stop, sink, requests, hist>>

\* The run is cancelled while suspended in asyncio.sleep: CancelledError
\* is raised at line 1000 and leaves scrape_from_url (no try/finally).
CancelInSleep ==
    /\ pc = "sleep"
    /\ pc' = "cancelled_in_sleep"
    /\ UNCHANGED <<input_data, config, client, seen_ids, stats, all_ads, batch_ads, page,
                   page_ads, should_stop, sink, requests, hist>>

\* The run is cancelled while suspended in push_data: the batch in flight
\* may or may not have reached the sink.
CancelInPush ==
    /\ pc \in {"push", "final_push"}
    /\ pc' = "cancelled_in_push"
    /\ \E delivered \in BOOLEAN :
         sink' = IF delivered THEN Append(sink, batch_ads) ELSE sink
    /\ UNCHANGED <<input_data, config, client, seen_ids, stats, all_ads, batch_ads, page,
                   page_ads, should_stop, requests, hist>>

Next ==
    \/ Start
    \/ ScrapePage
    \/ PushBatch
    \/ PushBatchFails
    \/ Sleep
    \/ FinalPush
    \/ FinalPushFails
    \/ CancelInSleep
    \/ CancelInPush

Spec == Init /\ [][Next]_vars

TypeOK ==
    /\ pc \in {"config", "run", "test", "tested", "start", "fetch", "push", "sleep", "final_push",
               "done", "returned", "crashed", "cancelled_in_sleep",
               "cancelled_in_push"}
    /\ page \in 1..DefaultMaxPages
    /\ should_stop \in BOOLEAN

(***************************************************************************)
(* Properties of the crawl loop                                            *)
(***************************************************************************)
DistinctIds(records) ==
    \A i, j \in 1..Len(records) : i # j => records[i].id # records[j].id

C2_AsStated ==
    hist.gate_page > 0 => Len(requests) <= hist.gate_page

\* C3: when scrape_from_url returns (no push having failed), the batches
\* handed to the sink, concatenated, are the returned output sequence, and
\* their number of records is stats.unique_ads.
C3_Flushed ==
    pc = "done" =>
        /\ Flatten(sink) = all_ads
        /\ Len(Flatten(sink)) = stats["unique_ads"]

C3_Witness ==
    /\ pc = "done"
    /\ Len(sink) >= 2
    /\ should_stop
    /\ Len(all_ads) > batch_size

\* C4 (as stated): after the fetch of page n raised, stats.errors has grown
\* by one, page n added no record, no other request is issued, the buffered
\* records are flushed and scrape_from_url returns normally.
C4_AsStated ==
    hist.err_page > 0 =>
        /\ stats.errors = hist.err_errors + 1
        /\ all_ads = hist.err_all_ads
        /\ Len(requests) = hist.err_page
        /\ pc # "crashed"
        /\ (pc = "done" => Flatten(sink) = all_ads)

\* C10 (as stated): when the run is cancelled between two page fetches,
\* while it is suspended in the inter-page delay, every accumulated record
\* has been handed to the sink.
C10_AsStated ==
    pc = "cancelled_in_sleep" => Flatten(sink) = all_ads

\* C11 (as stated): a push to the sink that fails is caught and counted,
\* and the crawl goes on: no step taken while a push is awaited ends the
\* run with the exception.
C11_AsStated ==
    [][(pc \in {"push", "final_push"}) => (pc' # "crashed")]_vars

\* C19 (as stated): when the processing of one listing raises (here the
\* age computation), the failure is caught for that listing alone:
\* stats.errors grows by one for it and the records the page had
\* accumulated before it are kept in the output.
C19_AsStated ==
    hist.raise_seen =>
        /\ stats.errors > hist.raise_errors
        /\ Len(all_ads) >= hist.raise_all_ads + hist.raise_kept

C15_AsStated ==
    LET n == Len(requests)
        goes_on == /\ ~hist.last_signal
                   /\ hist.last_nonempty
                   /\ n < max_pages
    IN  n >= 1 =>
          /\ pc \in {"final_push", "done"} => ~goes_on
          /\ pc \in {"sleep", "fetch"} => goes_on
          /\ (~hist.last_nonempty /\ ~hist.last_signal) =>
                stats.errors = hist.last_errors

\* C29 (as stated): between two page fetches and when scrape_from_url
\* returns, stats.unique_ads, stats.total_ads, the length of the output
\* sequence and the size of seen_ids are equal, and seen_ids is the set of
\* the identifiers of the emitted records, also after pages on which a
\* listing or the fetch failed.
C29_AsStated ==
    pc \in {"fetch", "push", "sleep", "final_push", "done"} =>
        /\ stats.unique_ads = stats.total_ads
        /\ stats.total_ads = Len(all_ads)
        /\ Len(all_ads) = Cardinality(seen_ids)
        /\ seen_ids = IdsOf(all_ads)

(***************************************************************************)
(* ScraperEngine.run: initialize_client, then scrape_from_url, then the    *)
(* result dictionary.  Nothing in run catches an exception.                *)
(***************************************************************************)
InitRun ==
    /\ config \in Configs
    /\ client = [kind |-> "unset"]
    /\ input_data = [direct_url |-> <<>>]
    /\ pc = "run"
    /\ seen_ids = {}
    /\ stats = InitStats
    /\ all_ads = <<>>
    /\ batch_ads = <<>>
    /\ page = 1
    /\ page_ads = <<>>
    /\ should_stop = FALSE
    /\ sink = <<>>
    /\ requests = <<>>
    /\ hist = InitHist

\* lines 842-874, awaited: with a proxy configuration in the input the
\* proxy URL is obtained or not (create_proxy_configuration or new_url
\* raises, which is caught and logged at lines 856-857, or gives nothing);
\* the client is then built with the proxy or without.
initialize_client ==
    /\ pc = "run"
    /\ \E proxy_url \in BOOLEAN :
         /\ proxy_url => "proxyConfiguration" \in DOMAIN input_data
         /\ client' = [kind |-> "any", proxy |-> proxy_url]
    /\ pc' = "start"
    /\ UNCHANGED <<input_data, config, seen_ids, stats, all_ads, batch_ads, page,
                   page_ads, should_stop, sink, requests, hist>>

\* lines 860-873: lbc.Proxy or lbc.Client raises, outside any try
InitializeClientFails ==
    /\ pc = "run"
    /\ pc' = "crashed"
    /\ UNCHANGED <<input_data, config, client, seen_ids, stats, all_ads, batch_ads,
                   page, page_ads, should_stop, sink, requests, hist>>

\* lines 1030-1034
RunResult == [stats |-> stats, ads |-> all_ads, config |-> config]

\* lines 1025-1034: scrape_from_url has returned, run returns RunResult
RunReturn ==
    /\ pc = "done"
    /\ pc' = "returned"
    /\ UNCHANGED <<input_data, config, client, seen_ids, stats, all_ads, batch_ads,
                   page, page_ads, should_stop, sink, requests, hist>>

NextRun ==
    \/ initialize_client
    \/ InitializeClientFails
    \/ Next
    \/ RunReturn

SpecRun == InitRun /\ [][NextRun]_vars

\* C12 (as stated): whatever failure occurs (client construction, fetch,
\* listing, sink, empty search arguments), ScraperEngine.run never ends by
\* propagating an exception: it ends by returning RunResult.
C12_AsStated ==
    /\ pc # "crashed"
    /\ (pc = "returned" => RunResult.ads = all_ads /\ RunResult.stats = stats)

(***************************************************************************)
(* The construction of the client, by ScraperEngine.run and by             *)
(* test_client_initialization (src/test_scraper.py), with and without a    *)
(* proxy configuration in the input.  The configurations are those of a    *)
(* crawl of one page.                                                      *)
(***************************************************************************)
InitClient ==
    /\ config \in {c \in Configs : /\ c.max_pages = 1
                                   /\ c.limit_per_page = 1
                                   /\ c.delay_between_pages = 0
                                   /\ c.max_age_days = 0}
    /\ client = [kind |-> "unset"]
    /\ input_data \in {[direct_url |-> <<>>],
                        [direct_url |-> <<>>, proxyConfiguration |-> TRUE]}
    /\ pc \in {"run", "test"}
    /\ seen_ids = {}
    /\ stats = InitStats
    /\ all_ads = <<>>
    /\ batch_ads = <<>>
    /\ page = 1
    /\ page_ads = <<>>
    /\ should_stop = FALSE
    /\ sink = <<>>
    /\ requests = <<>>
    /\ hist = InitHist

\* src/test_scraper.py line 153: engine.initialize_client() is called and
\* not awaited.  The call of a coroutine function builds a coroutine
\* object and runs none of its body; the object is dropped.
initialize_client_called ==
    /\ pc = "test"
    /\ pc' = "tested"
    /\ UNCHANGED <<input_data, config, client, seen_ids, stats, all_ads, batch_ads,
                   page, page_ads, should_stop, sink, requests, hist>>

NextClient ==
    \/ initialize_client_called
    \/ initialize_client
    \/ InitializeClientFails
    \/ Start
    \/ ScrapePage
    \/ FinalPush
    \/ RunReturn

SpecClient == InitClient /\ [][NextClient]_vars

\* C27 (as stated): once initialize_client has been called, by the test or
\* by run, the engine holds a constructed client, with a proxy
\* configuration or without and also when the proxy setup failed; and no
\* search request is issued while the client is not constructed.
C27_AsStated ==
    /\ pc = "tested" => client.kind # "unset"
    /\ pc \in {"start", "fetch", "final_push", "done", "returned"} =>
          client.kind # "unset"
    /\ requests # <<>> => client.kind # "unset"

(***************************************************************************)
(* scrape_from_url executed again on the same ScraperEngine: the locals    *)
(* of lines 954-969 start afresh, self.seen_ids and self.stats are the     *)
(* engine's (lines 827-840) and are not assigned anywhere else.            *)
(***************************************************************************)
MaxQueries == 2           \* executions of scrape_from_url on one engine

InitRerun ==
    /\ config \in {c \in Configs : /\ c.max_pages = 1
                                   /\ c.limit_per_page = 1
                                   /\ c.delay_between_pages = 0}
    /\ client = [kind |-> "short"]
    /\ EngineInit

\* the second execution on an engine built anew
Rerun_on_new_engine ==
    /\ pc = "done"
    /\ hist.queries < MaxQueries
    /\ pc' = "start"
    /\ seen_ids' = {}
    /\ all_ads' = <<>>
    /\ batch_ads' = <<>>
    /\ page' = 1
    /\ page_ads' = <<>>
    /\ should_stop' = FALSE
    /\ hist' = [hist EXCEPT !.queries = @ + 1,
                            !.prior_ids = @ \cup IdsOf(all_ads),
                            !.prior_seen = seen_ids,
                            !.first_occurrences = <<>>]
    /\ UNCHANGED <<input_data, config, client, stats, sink, requests>>

Rerun ==
    /\ pc = "done"
    /\ hist.queries < MaxQueries
    /\ pc' = "start"
    /\ all_ads' = <<>>
    /\ batch_ads' = <<>>
    /\ page' = 1
    /\ page_ads' = <<>>
    /\ should_stop' = FALSE
    /\ hist' = [hist EXCEPT !.queries = @ + 1,
                            !.prior_ids = @ \cup IdsOf(all_ads),
                            !.prior_seen = seen_ids,
                            !.first_occurrences = <<>>]
    /\ UNCHANGED <<input_data, config, client, seen_ids, stats, sink, requests>>

NextRerun == Start \/ ScrapePage \/ FinalPush \/ Rerun

SpecRerun == InitRerun /\ [][NextRerun]_vars

\* C13: seen_ids is never reset or shrunk: across the executions of
\* scrape_from_url on one engine it keeps every identifier emitted by the
\* earlier executions, no such identifier is emitted again, and every
\* listing the page loop reaches with an identifier emitted earlier, in
\* this execution or in an earlier one, adds one to stats.duplicates (as
\* does a listing whose identifier an earlier execution recorded on a page
\* it then dropped).
C13_CrossQuery ==
    /\ hist.prior_ids \subseteq seen_ids
    /\ IdsOf(all_ads) \subseteq seen_ids
    /\ IdsOf(all_ads) \cap hist.prior_ids = {}
    /\ stats.duplicates = hist.later_examined

C13_Witness ==
    /\ pc = "done"
    /\ hist.queries = 2
    /\ hist.prior_ids = {1}
    /\ Len(requests) = 2
    /\ requests[2][Key.page] = IntV(1)
    /\ all_ads = <<>>
    /\ stats.duplicates >= 2

(***************************************************************************)
(* The end-to-end scenarios B, C and D: the crawl loop against the mocked  *)
(* clients, with a sink that accepts every batch.                          *)
(***************************************************************************)
MaxScenarioPages == 4     \* page ceilings of scenario B
MaxPageSize == 35         \* page sizes of scenario B
MaxFresh == 30            \* fresh listings on the special page of C and D

ScenarioConfigs(pages, sizes, ages) ==
    [search_args : {DictSet(NoArgs, Key.limit, IntV(35))},
     max_pages : pages,
     limit_per_page : sizes,
     delay_between_pages : {0, 1},
     max_age_days : ages]

InitB ==
    /\ config \in ScenarioConfigs(1..MaxScenarioPages, 1..MaxPageSize,
                                  {0, 7 * HoursPerDay})
    /\ client = [kind |-> "B"]
    /\ EngineInit

InitC ==
    /\ config \in ScenarioConfigs({3}, {35}, {0, 7 * HoursPerDay})
    /\ client \in [kind : {"C"}, fresh2 : 0..MaxFresh]
    /\ EngineInit

InitD ==
    /\ config \in ScenarioConfigs({1, 3}, {35}, {7 * HoursPerDay})
    /\ client \in [kind : {"D"}, fresh : 1..MaxFresh,
                   old_age : {10 * HoursPerDay, 10 * HoursPerDay + 13}]
    /\ EngineInit

NextB == Start \/ ScrapePage \/ Sleep \/ FinalPush
NextC == Start \/ ScrapePage \/ Sleep \/ FinalPush
NextD == Start \/ ScrapePage \/ PushBatch

SpecB == InitB /\ [][NextB]_vars
SpecC == InitC /\ [][NextC]_vars
SpecD == InitD /\ [][NextD]_vars

RequestedPages == {requests[i][Key.page].v : i \in 1..Len(requests)}

\* C5: scenario B.  With max_pages = 3 and 35 fresh listings with new
\* identifiers on every page, the output has 105 records,
\* stats.pages_processed = 3, stats.duplicates = 0 and page 4 is never
\* requested; in general max_pages full pages give max_pages *
\* limit_per_page records and no page beyond max_pages is requested.
C5_ScenarioB ==
    /\ RequestedPages \subseteq 1..config.max_pages
    /\ pc = "done" =>
         /\ Len(all_ads) = config.max_pages * config.limit_per_page
         /\ stats.pages_processed = config.max_pages
         /\ stats.duplicates = 0
         /\ (config.max_pages = 3 /\ config.limit_per_page = 35
               => Len(all_ads) = 105 /\ stats.pages_processed = 3
                    /\ 4 \notin RequestedPages)

C5_Witness ==
    /\ pc = "done"
    /\ config.max_pages = 3
    /\ config.limit_per_page = 35
    /\ Len(all_ads) = 105
    /\ RequestedPages = {1, 2, 3}

C7_ScenarioD ==
    /\ RequestedPages \subseteq {1}
    /\ pc = "done" =>
         /\ all_ads = [i \in 1..client.fresh |->
                          create_detailed_ad(FreshRun(1, client.fresh)[i],
                                             search_context)]
         /\ stats.pages_processed = 1
         /\ (client.fresh = 30 => Len(all_ads) = 30)

C7_Witness ==
    /\ pc = "done"
    /\ client.fresh = 30
    /\ config.max_pages = 3
    /\ Len(all_ads) = 30
    /\ should_stop

(***************************************************************************)
(* The query builder: LeboncoinURLParser (src/url_parsing.py)              *)
(***************************************************************************)
\* The members of the enumerations of the search-client library that the
\* parser refers to.  A category is named by its value; LbcCategoryValues
\* are the values for which lbc.Category has a member.
LbcCategoryValues == {0, 1, 2, 9, 10}
Category(v) == EnumV("Category", v)
TOUTES_CATEGORIES == Category(0)

OWNER_TYPE_MAP ==
    {[key |-> Key.private, val |-> EnumV("OwnerType", "PRIVATE")],
     [key |-> Key.pro, val |-> EnumV("OwnerType", "PRO")]}

SORT_MAP ==
    {[key |-> Key.time, val |-> EnumV("Sort", "NEWEST")],
     [key |-> Key.price, val |-> EnumV("Sort", "CHEAPEST")],
     [key |-> Key.price_asc, val |-> EnumV("Sort", "EXPENSIVE")],
     [key |-> Key.price_desc, val |-> EnumV("Sort", "CHEAPEST")],
     [key |-> Key.relevance, val |-> EnumV("Sort", "RELEVANCE")]}

AD_TYPE_MAP ==
    {[key |-> Key.offer, val |-> EnumV("AdType", "OFFER")],
     [key |-> Key.demand, val |-> EnumV("AdType", "DEMAND")]}

InMap(map, key) == \E e \in map : e.key = key
MapGet(map, key) == (CHOOSE e \in map : e.key = key).val

CITY_COORDINATES ==
    <<[key |-> <<"p", "a", "r", "i", "s">>, lat |-> 488566, lng |-> 23522],
      [key |-> <<"l", "y", "o", "n">>, lat |-> 457640, lng |-> 48357],
      [key |-> <<"m", "a", "r", "s", "e", "i", "l", "l", "e">>, lat |-> 432965, lng |-> 53698],
      [key |-> <<"t", "o", "u", "l", "o", "u", "s", "e">>, lat |-> 436047, lng |-> 14442],
      [key |-> <<"n", "i", "c", "e">>, lat |-> 437102, lng |-> 72620],
      [key |-> <<"n", "a", "n", "t", "e", "s">>, lat |-> 472184, lng |-> -15536],
      [key |-> <<"s", "t", "r", "a", "s", "b", "o", "u", "r", "g">>, lat |-> 485734, lng |-> 77521],
      [key |-> <<"m", "o", "n", "t", "p", "e", "l", "l", "i", "e", "r">>, lat |-> 436110, lng |-> 38767],
      [key |-> <<"b", "o", "r", "d", "e", "a", "u", "x">>, lat |-> 448378, lng |-> -5792],
      [key |-> <<"l", "i", "l", "l", "e">>, lat |-> 506292, lng |-> 30573],
      [key |-> <<"r", "e", "n", "n", "e", "s">>, lat |-> 481173, lng |-> -16778],
      [key |-> <<"r", "e", "i", "m", "s">>, lat |-> 492583, lng |-> 40317],
      [key |-> <<"s", "a", "i", "n", "t", "_", "e", "t", "i", "e", "n", "n", "e">>, lat |-> 450900, lng |-> 43900],
      [key |-> <<"t", "o", "u", "l", "o", "n">>, lat |-> 431242, lng |-> 59280],
      [key |-> <<"l", "e", "_", "h", "a", "v", "r", "e">>, lat |-> 494944, lng |-> 1079],
      [key |-> <<"g", "r", "e", "n", "o", "b", "l", "e">>, lat |-> 451885, lng |-> 57245],
      [key |-> <<"d", "i", "j", "o", "n">>, lat |-> 473220, lng |-> 50415],
      [key |-> <<"a", "n", "g", "e", "r", "s">>, lat |-> 474784, lng |-> -5632],
      [key |-> <<"n", "i", "m", "e", "s">>, lat |-> 438367, lng |-> 43601],
      [key |-> <<"v", "i", "l", "l", "e", "u", "r", "b", "a", "n", "n", "e">>, lat |-> 457667, lng |-> 48833],
      [key |-> <<"s", "a", "i", "n", "t", "_", "d", "e", "n", "i", "s">>, lat |-> 489361, lng |-> 23574],
      [key |-> <<"l", "e", "_", "m", "a", "n", "s">>, lat |-> 480061, lng |-> 1996],
      [key |-> <<"a", "i", "x", "_", "e", "n", "_", "p", "r", "o", "v", "e", "n", "c", "e">>, lat |-> 435263, lng |-> 54454],
      [key |-> <<"c", "l", "e", "r", "m", "o", "n", "t", "_", "f", "e", "r", "r", "a", "n", "d">>, lat |-> 457772, lng |-> 30870],
      [key |-> <<"b", "r", "e", "s", "t">>, lat |-> 483905, lng |-> -44860],
      [key |-> <<"t", "o", "u", "r", "s">>, lat |-> 473941, lng |-> 6848],
      [key |-> <<"l", "i", "m", "o", "g", "e", "s">>, lat |-> 458336, lng |-> 12611],
      [key |-> <<"a", "m", "i", "e", "n", "s">>, lat |-> 498943, lng |-> 22958],
      [key |-> <<"p", "e", "r", "p", "i", "g", "n", "a", "n">>, lat |-> 426886, lng |-> 28948],
      [key |-> <<"m", "e", "t", "z">>, lat |-> 491193, lng |-> 61757],
      [key |-> <<"n", "a", "n", "t", "e", "r", "r", "e">>, lat |-> 488938, lng |-> 22064],
      [key |-> <<"b", "o", "u", "l", "o", "g", "n", "e", "_", "b", "i", "l", "l", "a", "n", "c", "o", "u", "r", "t">>, lat |-> 488355, lng |-> 22413],
      [key |-> <<"o", "r", "l", "e", "a", "n", "s">>, lat |-> 479029, lng |-> 19093],
      [key |-> <<"m", "u", "l", "h", "o", "u", "s", "e">>, lat |-> 477508, lng |-> 73359],
      [key |-> <<"r", "o", "u", "e", "n">>, lat |-> 494432, lng |-> 10993],
      [key |-> <<"c", "a", "e", "n">>, lat |-> 491829, lng |-> -3707],
      [key |-> <<"d", "u", "n", "k", "e", "r", "q", "u", "e">>, lat |-> 510343, lng |-> 23768],
      [key |-> <<"n", "a", "n", "c", "y">>, lat |-> 486921, lng |-> 61844]>>

\* lbc.City
City(lat, lng, radius, city) ==
    [lat |-> lat, lng |-> lng, radius |-> radius, city |-> city]

\* _get_city_coordinates: exact match, then the first partial match in
\* table order, then Paris.
_get_city_coordinates(city_name, postal_code) ==
    LET normalized_name == replace(replace(lower(city_name), " ", "_"), "-", "_")
        n == Len(CITY_COORDINATES)
        exact == {i \in 1..n : CITY_COORDINATES[i].key = normalized_name}
        partial == {i \in 1..n :
                      \/ Contains(CITY_COORDINATES[i].key, normalized_name)
                      \/ Contains(normalized_name, CITY_COORDINATES[i].key)}
        Min(S) == CHOOSE i \in S : \A j \in S : i <= j
    IN  IF exact # {} THEN CITY_COORDINATES[Min(exact)]
        ELSE IF partial # {} THEN CITY_COORDINATES[Min(partial)]
        ELSE CITY_COORDINATES[1]

\* The city name of a "Name_PostalCode" part
CityNameOf(city_part) ==
    LET city_parts == Split(city_part, <<"_">>)
    IN  IF Len(city_parts) >= 2 /\ isdigit(city_parts[Len(city_parts)])
          THEN Join(SubSeq(city_parts, 1, Len(city_parts) - 1), <<"_">>)
          ELSE city_part

\* _parse_single_location: <<city>>, or <<>> where the code returns None
_parse_single_location(location_str) ==
    IF Contains(location_str, <<"_", "_">>)
      THEN LET parts == Split(location_str, <<"_", "_">>)
               city_name == CityNameOf(parts[1])
               coords_parts == Split(parts[2], <<"_">>)
           IN  IF Len(coords_parts) >= 2
                 THEN LET lat == ParseFloat(coords_parts[1])
                          lng == ParseFloat(coords_parts[2])
                          radius == IF Len(coords_parts) > 2
                                      THEN ParseInt(coords_parts[3])
                                      ELSE [ok |-> TRUE, v |-> 0]
                      IN  IF lat.ok /\ lng.ok /\ radius.ok
                            THEN <<City(lat.v, lng.v, radius.v, city_name)>>
                            ELSE <<>>
                 ELSE <<>>
      ELSE LET city_parts == Split(location_str, <<"_">>)
           IN  IF Len(city_parts) >= 2 /\ isdigit(city_parts[Len(city_parts)])
                 THEN LET city_name == CityNameOf(location_str)
                          postal_code == city_parts[Len(city_parts)]
                          coords == _get_city_coordinates(city_name, postal_code)
                      IN  <<City(coords.lat, coords.lng, 0, city_name)>>
                 ELSE <<>>

\* _parse_locations
RECURSIVE ParseLocationParts(_)
ParseLocationParts(location_parts) ==
    IF location_parts = <<>> THEN <<>>
    ELSE _parse_single_location(strip(Head(location_parts)))
           \o ParseLocationParts(Tail(location_parts))

_parse_locations(location_str) ==
    ParseLocationParts(Split(location_str, <<",">>))

RangeMax == 9999999           \* upper bound of an open range, line 337
PriceRangeMax == 99999999     \* upper bound in _parse_price_range, line 283

\* lines 346-357: a comma-separated list, an integer, or the string itself
GenericFallback(value) ==
    IF Contains(value, <<",">>)
      THEN LET parts == Split(value, <<",">>)
           IN  ListV([i \in 1..Len(parts) |-> strip(parts[i])])
    ELSE IF ParseInt(value).ok THEN IntV(ParseInt(value).v)
    ELSE StrV(value)

\* the generic parser with the upper bound of _parse_price_range
_parse_generic_value_sentinel(value) ==
    LET range_parts == Split(value, <<"-">>)
    IN  IF Contains(value, <<"-">>) /\ Len(range_parts) = 2
          THEN IF range_parts[1] = Key.min
                 THEN IF ParseInt(range_parts[2]).ok
                        THEN TupleV(0, ParseInt(range_parts[2]).v)
                        ELSE GenericFallback(value)
               ELSE IF range_parts[2] = Key.max
                 THEN IF ParseInt(range_parts[1]).ok
                        THEN TupleV(ParseInt(range_parts[1]).v, PriceRangeMax)
                        ELSE GenericFallback(value)
               ELSE IF ParseInt(range_parts[1]).ok /\ ParseInt(range_parts[2]).ok
                 THEN TupleV(ParseInt(range_parts[1]).v, ParseInt(range_parts[2]).v)
               ELSE GenericFallback(value)
          ELSE GenericFallback(value)

\* _parse_generic_value: a range, else the fallbacks
_parse_generic_value(value) ==
    LET range_parts == Split(value, <<"-">>)
    IN  IF Contains(value, <<"-">>) /\ Len(range_parts) = 2
          THEN IF range_parts[1] = Key.min
                 THEN IF ParseInt(range_parts[2]).ok
                        THEN TupleV(0, ParseInt(range_parts[2]).v)
                        ELSE GenericFallback(value)
               ELSE IF range_parts[2] = Key.max
                 THEN IF ParseInt(range_parts[1]).ok
                        THEN TupleV(ParseInt(range_parts[1]).v, RangeMax)
                        ELSE GenericFallback(value)
               ELSE IF ParseInt(range_parts[1]).ok /\ ParseInt(range_parts[2]).ok
                 THEN TupleV(ParseInt(range_parts[1]).v, ParseInt(range_parts[2]).v)
               ELSE GenericFallback(value)
          ELSE GenericFallback(value)

\* lines 68-80: the category branch
CategoryBranch(search_config, value) ==
    IF ParseInt(value).ok
      THEN DictSet(search_config, Key.category,
                   IF ParseInt(value).v \in LbcCategoryValues
                     THEN Category(ParseInt(value).v)
                     ELSE TOUTES_CATEGORIES)
      ELSE search_config

\* the branch without the test of the parsed list
LocationsBranch_Always(search_config, value) ==
    DictSet(search_config, Key.locations, ListV(_parse_locations(value)))

\* lines 82-85: the locations branch
LocationsBranch(search_config, value) ==
    LET locations == _parse_locations(value)
    IN  IF locations # <<>>
          THEN DictSet(search_config, Key.locations, ListV(locations))
          ELSE search_config

\* lines 95-102: the order branch
OrderBranch(search_config, value) ==
    IF value = Key.desc /\ Key.sort \in DOMAIN search_config
         /\ search_config[Key.sort] = EnumV("Sort", "EXPENSIVE")
      THEN DictSet(search_config, Key.sort, EnumV("Sort", "CHEAPEST"))
    ELSE IF value = Key.asc /\ Key.sort \in DOMAIN search_config
         /\ search_config[Key.sort] = EnumV("Sort", "CHEAPEST")
      THEN DictSet(search_config, Key.sort, EnumV("Sort", "EXPENSIVE"))
    ELSE search_config

\* lines 116-129: any other key
GenericBranch(kwargs_filters, key, value) ==
    LET parsed_value == _parse_generic_value(value)
    IN  IF parsed_value.t \in {"tuple", "list"}
          THEN DictSet(kwargs_filters, key, parsed_value)
        ELSE IF parsed_value.t = "int"
          THEN DictSet(kwargs_filters, key, ListV(<<IntToStr(parsed_value.v)>>))
        ELSE DictSet(kwargs_filters, key, ListV(<<parsed_value.v>>))

\* lines 57-129: the body of the loop over the arguments; acc holds
\* search_config and kwargs_filters.
ParseArg(acc, arg) ==
    IF ~Contains(arg, <<"=">>) THEN acc
    ELSE LET kv == SplitOnce(arg, <<"=">>)
             key == kv[1]
             value == unquote(kv[2])
             sc == acc.search_config
         IN  IF key = Key.text
               THEN [acc EXCEPT !.search_config = DictSet(sc, Key.text, StrV(value))]
             ELSE IF key = Key.category
               THEN [acc EXCEPT !.search_config = CategoryBranch(sc, value)]
             ELSE IF key = Key.locations
               THEN [acc EXCEPT !.search_config = LocationsBranch(sc, value)]
             ELSE IF key = Key.owner_type
               THEN IF InMap(OWNER_TYPE_MAP, value)
                      THEN [acc EXCEPT !.search_config =
                              DictSet(sc, Key.owner_type, MapGet(OWNER_TYPE_MAP, value))]
                      ELSE acc
             ELSE IF key = Key.sort
               THEN IF InMap(SORT_MAP, value)
                      THEN [acc EXCEPT !.search_config =
                              DictSet(sc, Key.sort, MapGet(SORT_MAP, value))]
                      ELSE acc
             ELSE IF key = Key.order
               THEN [acc EXCEPT !.search_config = OrderBranch(sc, value)]
             ELSE IF key = Key.ad_type
               THEN IF InMap(AD_TYPE_MAP, value)
                      THEN [acc EXCEPT !.search_config =
                              DictSet(sc, Key.ad_type, MapGet(AD_TYPE_MAP, value))]
                      ELSE acc
             ELSE IF key = Key.shippable
               THEN IF value = <<"1">>
                      THEN [acc EXCEPT !.search_config =
                              DictSet(sc, Key.shippable, BoolV(TRUE))]
                      ELSE acc
             ELSE IF key = Key.page THEN acc
             ELSE [acc EXCEPT !.kwargs_filters = GenericBranch(@, key, value)]

RECURSIVE ParseArgs(_, _)
ParseArgs(args, acc) ==
    IF args = <<>> THEN acc
    ELSE ParseArgs(Tail(args), ParseArg(acc, Head(args)))

\* parse_url_to_search_config
parse_url_to_search_config(url) ==
    IF ~Contains(url, <<"?">>) THEN NoArgs
    ELSE LET query_string == Split(url, <<"?">>)[2]
             args == Split(query_string, <<"&">>)
             acc == ParseArgs(args, [search_config |-> NoArgs,
                                     kwargs_filters |-> NoArgs])
             merged == DictUpdate(acc.search_config, acc.kwargs_filters)
         IN  DictSetDefault(
               DictSetDefault(
                 DictSetDefault(merged, Key.sort, EnumV("Sort", "NEWEST")),
                 Key.ad_type, EnumV("AdType", "OFFER")),
               Key.limit, IntV(35))

parse_leboncoin_url(url) == parse_url_to_search_config(url)

(***************************************************************************)
(* The URLs given to the query builder.  An argument is described by a     *)
(* record: a price argument by its shape and bounds, any other argument    *)
(* by its text.                                                            *)
(***************************************************************************)
MaxPrice == 12            \* price bounds 0..MaxPrice, besides the scenario's

U_base == <<"h", "t", "t", "p", "s", ":", "/", "/", "w", "w", "w", ".", "l", "e", "b", "o", "n", "c", "o", "i", "n", ".", "f", "r", "/", "r", "e", "c", "h", "e", "r", "c", "h", "e">>
Arg ==
    [category_2 |-> <<"c", "a", "t", "e", "g", "o", "r", "y", "=", "2">>,
     category_unknown |-> <<"c", "a", "t", "e", "g", "o", "r", "y", "=", "9", "9", "9">>,
     category_bad |-> <<"c", "a", "t", "e", "g", "o", "r", "y", "=", "a", "b", "c">>,
     loc_coords |-> <<"l", "o", "c", "a", "t", "i", "o", "n", "s", "=", "L", "y", "o", "n", "_", "_", "4", "5", ".", "7", "6", "0", "5", "_", "4", ".", "8", "3", "5", "5", "_", "5", "0", "0", "0">>,
     loc_postal |-> <<"l", "o", "c", "a", "t", "i", "o", "n", "s", "=", "N", "a", "n", "t", "e", "r", "r", "e", "_", "9", "2", "0", "0", "0">>,
     loc_bare |-> <<"l", "o", "c", "a", "t", "i", "o", "n", "s", "=", "P", "a", "r", "i", "s">>,
     loc_two |-> <<"l", "o", "c", "a", "t", "i", "o", "n", "s", "=", "P", "a", "r", "i", "s", "_", "7", "5", "0", "0", "1", ",", "L", "y", "o", "n", "_", "6", "9", "0", "0", "0">>,
     loc_badfloat |-> <<"l", "o", "c", "a", "t", "i", "o", "n", "s", "=", "L", "y", "o", "n", "_", "_", "a", "b", "c", "_", "4", ".", "8", "3", "5", "5">>,
     sort_time |-> <<"s", "o", "r", "t", "=", "t", "i", "m", "e">>,
     sort_price |-> <<"s", "o", "r", "t", "=", "p", "r", "i", "c", "e">>,
     order_asc |-> <<"o", "r", "d", "e", "r", "=", "a", "s", "c">>,
     order_desc |-> <<"o", "r", "d", "e", "r", "=", "d", "e", "s", "c">>,
     page |-> <<"p", "a", "g", "e", "=", "3">>,
     text |-> <<"t", "e", "x", "t", "=", "v", "e", "l", "o">>,
     owner |-> <<"o", "w", "n", "e", "r", "_", "t", "y", "p", "e", "=", "p", "r", "o">>,
     shippable |-> <<"s", "h", "i", "p", "p", "a", "b", "l", "e", "=", "1">>,
     brand |-> <<"u", "_", "c", "a", "r", "_", "b", "r", "a", "n", "d", "=", "B", "M", "W", ",", "A", "u", "d", "i">>,
     rooms |-> <<"r", "o", "o", "m", "s", "=", "3", "-", "3">>,
     noequals |-> <<"f", "u", "r", "n", "i", "s", "h", "e", "d">>,
     sort_unknown |-> <<"s", "o", "r", "t", "=", "f", "o", "o">>,
     loc_unknown |-> <<"l", "o", "c", "a", "t", "i", "o", "n", "s", "=", "Z", "z", "z", "_", "1", "2", "3", "4", "5">>,
     loc_outside |-> <<"l", "o", "c", "a", "t", "i", "o", "n", "s", "=", "M", "a", "r", "s", "_", "_", "1", "2", "3", ".", "4", "_", "-", "4", "5", "6", ".", "7", "_", "-", "5">>,
     loc_mixed |-> <<"l", "o", "c", "a", "t", "i", "o", "n", "s", "=", "L", "y", "o", "n", "_", "6", "9", "0", "0", "0", ",", "N", "i", "c", "e", ",", "P", "a", "r", "i", "s", "_", "7", "5", "0", "0", "1">>,
     price_abc |-> <<"p", "r", "i", "c", "e", "=", "a", "b", "c">>,
     price_abc_def |-> <<"p", "r", "i", "c", "e", "=", "a", "b", "c", "-", "d", "e", "f">>,
     rooms_abc |-> <<"r", "o", "o", "m", "s", "=", "a", "b", "c">>]
RawArgs ==
    {Arg.category_2,
     Arg.category_unknown,
     Arg.category_bad,
     Arg.loc_coords,
     Arg.loc_postal,
     Arg.loc_bare,
     Arg.loc_two,
     Arg.loc_badfloat,
     Arg.sort_time,
     Arg.sort_price,
     Arg.order_asc,
     Arg.order_desc,
     Arg.page,
     Arg.text,
     Arg.owner,
     Arg.shippable,
     Arg.brand,
     Arg.rooms,
     Arg.noequals,
     Arg.sort_unknown,
     Arg.loc_unknown,
     Arg.loc_outside,
     Arg.loc_mixed}

PriceVals == 0..MaxPrice \cup {100, 200, 500, 1600, 2020}

PriceArg(shape, a, b) == [kind |-> "price", shape |-> shape, a |-> a, b |-> b]
RawArg(text) == [kind |-> "raw", text |-> text]

PriceArgs ==
    {PriceArg("min", 0, b) : b \in PriceVals}
      \cup {PriceArg(sh, a, 0) : sh \in {"max", "max_escaped"}, a \in PriceVals}
      \cup {PriceArg("range", a, b) : a \in PriceVals, b \in PriceVals}

CorePriceArgs ==
    {PriceArg("min", 0, 1600), PriceArg("max", 500, 0),
     PriceArg("max", 2020, 0), PriceArg("range", 100, 200)}

\* The numeric-range arguments given loosely: a bare (possibly negative)
\* number, or a value that is neither a range nor a number.
LooseArgs ==
    {[kind |-> "bare", key |-> k, v |-> v] :
        k \in {Key.price, Key.rooms, Key.mileage}, v \in (0 - MaxPrice)..MaxPrice}
      \cup {[kind |-> "bad", text |-> t] :
               t \in {Arg.price_abc, Arg.price_abc_def, Arg.rooms_abc}}

\* the text of an argument
Render(d) ==
    IF d.kind \in {"raw", "bad"} THEN d.text
    ELSE IF d.kind = "bare" THEN d.key \o <<"=">> \o IntToStr(d.v)
    ELSE Key.price \o <<"=">> \o
         (CASE d.shape = "min" -> Key.min \o <<"-">> \o IntToStr(d.b)
            [] d.shape = "max" -> IntToStr(d.a) \o <<"-">> \o Key.max
            [] d.shape = "max_escaped" ->
                 IntToStr(d.a) \o <<"%", "2", "D">> \o Key.max
            [] d.shape = "range" -> IntToStr(d.a) \o <<"-">> \o IntToStr(d.b))

UrlOf(descs) ==
    U_base \o <<"?">> \o Join([i \in 1..Len(descs) |-> Render(descs[i])], <<"&">>)

CoreArgs == CorePriceArgs \cup {RawArg(t) : t \in RawArgs}

UrlArgs ==
    {<<d>> : d \in PriceArgs \cup CoreArgs \cup LooseArgs}
      \cup {<<d, e>> : d \in CoreArgs, e \in CoreArgs}
      \cup {<<d, e>> : d \in {RawArg(t) : t \in RawArgs},
                        e \in {x \in LooseArgs : x.kind = "bad"}}
      \cup {<<e, d>> : d \in {RawArg(t) : t \in RawArgs},
                        e \in {x \in LooseArgs : x.kind = "bad"}}

DefaultConfig(search_args) ==
    [search_args |-> search_args, max_pages |-> 10, limit_per_page |-> 35,
     delay_between_pages |-> 0, max_age_days |-> 0]

InitParse ==
    /\ \E descs \in UrlArgs :
         /\ input_data = [direct_url |-> UrlOf(descs)]
         /\ hist = [InitHist EXCEPT !.url_args = descs]
    /\ config = DefaultConfig(NoArgs)
    /\ client = [kind |-> "any"]
    /\ pc = "config"
    /\ seen_ids = {}
    /\ stats = InitStats
    /\ all_ads = <<>>
    /\ batch_ads = <<>>
    /\ page = 1
    /\ page_ads = <<>>
    /\ should_stop = FALSE
    /\ sink = <<>>
    /\ requests = <<>>

\* Config.__init__ (lines 68-93): the search arguments given directly
\* when there are any, else parsed from the URL; the pagination settings
\* of the input, else their defaults.
ConfigOf(input) ==
    LET args == IF "search_args" \in DOMAIN input /\ DOMAIN input.search_args # {}
                  THEN input.search_args
                  ELSE parse_leboncoin_url(strip(
                          IF "direct_url" \in DOMAIN input THEN input.direct_url
                                                            ELSE <<>>))
    IN  [DefaultConfig(args) EXCEPT
           !.max_pages = IF "max_pages" \in DOMAIN input
                           THEN input.max_pages ELSE @,
           !.limit_per_page = IF "limit_per_page" \in DOMAIN input
                                THEN input.limit_per_page ELSE @]

ConfigInit ==
    /\ pc = "config"
    /\ config' = ConfigOf(input_data)
    /\ pc' = "start"
    /\ UNCHANGED <<input_data, client, seen_ids, stats, all_ads, batch_ads,
                   page, page_ads, should_stop, sink, requests, hist>>

SpecParse == InitParse /\ [][ConfigInit]_vars

search_args == config.search_args

PriceArgsOf(descs) == {i \in 1..Len(descs) : descs[i].kind = "price"}

\* C8: for all non-negative a and b, a URL whose query holds price=min-b
\* yields the range (0, b), price=a-max yields (a, RangeMax) and price=a-b
\* yields (a, b).
C8_PriceRange ==
    pc = "start" =>
      \A i \in PriceArgsOf(hist.url_args) :
        LET d == hist.url_args[i] IN
          PriceArgsOf(hist.url_args) = {i} =>
            /\ Key.price \in DOMAIN search_args
            /\ search_args[Key.price] =
                 (CASE d.shape = "min" -> TupleV(0, d.b)
                    [] d.shape \in {"max", "max_escaped"} -> TupleV(d.a, RangeMax)
                    [] d.shape = "range" -> TupleV(d.a, d.b))

C8_Witness ==
    /\ pc = "start"
    /\ hist.url_args = <<PriceArg("max", 2020, 0)>>
    /\ search_args[Key.price] = TupleV(2020, RangeMax)

\* C9: scenario A.  The URL .../recherche?category=2&price=500-max yields
\* the category resolved for id 2, the price range (500, RangeMax) and no
\* locations key; in general the locations key is present only when the URL
\* carries a locations parameter that yields at least one location.
ScenarioA == <<RawArg(Arg.category_2), PriceArg("max", 500, 0)>>

HasLocationsArg(descs) ==
    \E i \in 1..Len(descs) :
        descs[i].kind = "raw" /\ StartsWith(descs[i].text, Key.locations \o <<"=">>)

C9_ScenarioA ==
    pc = "start" =>
      /\ hist.url_args = ScenarioA =>
           /\ DOMAIN search_args = {Key.category, Key.price, Key.sort, Key.ad_type, Key.limit}
           /\ search_args[Key.category] = Category(2)
           /\ search_args[Key.price] = TupleV(500, RangeMax)
      /\ Key.locations \in DOMAIN search_args =>
           /\ HasLocationsArg(hist.url_args)
           /\ search_args[Key.locations].t = "list"
           /\ Len(search_args[Key.locations].items) >= 1

C9_Witness ==
    /\ pc = "start"
    /\ hist.url_args = ScenarioA
    /\ Key.locations \notin DOMAIN search_args
    /\ search_args[Key.category] = Category(2)

\* C22 (as stated): a URL with sort=time and order=desc yields the sort
\* "newest", a URL with sort=price and order=asc yields the sort
\* "cheapest", and a URL with no sort parameter, or with one the parser
\* does not know, yields the default sort "newest".
C22_AsStated ==
    pc = "start" =>
      LET given == {hist.url_args[i] : i \in 1..Len(hist.url_args)}
      IN  /\ given = {RawArg(Arg.sort_time), RawArg(Arg.order_desc)} =>
                search_args[Key.sort] = EnumV("Sort", "NEWEST")
          /\ given = {RawArg(Arg.sort_price), RawArg(Arg.order_asc)} =>
                search_args[Key.sort] = EnumV("Sort", "CHEAPEST")
          /\ given \cap {RawArg(Arg.sort_time), RawArg(Arg.sort_price)} = {} =>
                search_args[Key.sort] = EnumV("Sort", "NEWEST")

\* C23 (as stated): for every integer v, a URL whose price, rooms or
\* mileage parameter is the bare number v yields the range (v, v) for
\* that key.
C23_AsStated ==
    pc = "start" =>
      \A d \in LooseArgs :
        (d.kind = "bare" /\ hist.url_args = <<d>>) =>
            /\ d.key \in DOMAIN search_args
            /\ search_args[d.key] = TupleV(d.v, d.v)

\* C24 (as stated): a numeric-range parameter whose value is neither a
\* range nor a number (price=abc, price=abc-def) is dropped: the parse
\* yields a mapping, the key of that parameter is absent from it, and the
\* mapping is the one the URL without that parameter yields.
C24_AsStated ==
    pc = "start" =>
      \A i \in 1..Len(hist.url_args) :
        LET d == hist.url_args[i]
            others == SubSeq(hist.url_args, 1, i - 1)
                        \o SubSeq(hist.url_args, i + 1, Len(hist.url_args))
        IN  d.kind = "bad" =>
              /\ SplitOnce(d.text, <<"=">>)[1] \notin DOMAIN search_args
              /\ search_args = parse_leboncoin_url(UrlOf(others))

\* C25 (as stated): the locations list holds one location for every
\* comma-separated descriptor of the locations parameter, in descriptor
\* order, whatever its shape: the coordinates given in the descriptor, else
\* those the name lookup finds, else those of the fallback city (the first
\* entry of CITY_COORDINATES); no descriptor is dropped.
C25_AsStated ==
    pc = "start" =>
      \A i \in 1..Len(hist.url_args) :
        LET d == hist.url_args[i]
            prefix == Key.locations \o <<"=">>
            fallback == CITY_COORDINATES[1]
        IN  (/\ d.kind = "raw"
             /\ StartsWith(d.text, prefix)
             /\ \A j \in 1..Len(hist.url_args) :
                   j # i => ~StartsWith(Render(hist.url_args[j]), prefix)) =>
              /\ Key.locations \in DOMAIN search_args
              /\ Len(search_args[Key.locations].items) =
                   Len(Split(Drop(d.text, Len(prefix)), <<",">>))
              /\ d.text = Arg.loc_coords =>
                   search_args[Key.locations].items =
                     <<City(457605, 48355, 5000, <<"L", "y", "o", "n">>)>>
              /\ d.text = Arg.loc_postal =>
                   search_args[Key.locations].items =
                     <<City(488938, 22064, 0,
                            <<"N", "a", "n", "t", "e", "r", "r", "e">>)>>
              /\ d.text = Arg.loc_bare =>
                   search_args[Key.locations].items =
                     <<City(488566, 23522, 0, <<"P", "a", "r", "i", "s">>)>>
              /\ d.text = Arg.loc_unknown =>
                   search_args[Key.locations].items =
                     <<City(fallback.lat, fallback.lng, 0, <<"Z", "z", "z">>)>>

\* C26 (as stated): every location of the locations list has a latitude
\* within [-90, 90], a longitude within [-180, 180] and a radius that is
\* not negative (coordinates are fixed-point numbers of scale FloatScale).
C26_AsStated ==
    (pc = "start" /\ Key.locations \in DOMAIN search_args) =>
      \A j \in 1..Len(search_args[Key.locations].items) :
        LET c == search_args[Key.locations].items[j]
        IN  /\ c.lat >= 0 - 90 * FloatScale
            /\ c.lat <= 90 * FloatScale
            /\ c.lng >= 0 - 180 * FloatScale
            /\ c.lng <= 180 * FloatScale
            /\ c.radius >= 0

\* C28 (as stated): the mapping does not depend on the order of the
\* parameters: a URL with two parameters of distinct keys yields the
\* mapping that the URL with the two parameters exchanged yields.
C28_AsStated ==
    (pc = "start" /\ Len(hist.url_args) = 2) =>
      LET d == hist.url_args[1]
          e == hist.url_args[2]
      IN  Split(Render(d), <<"=">>)[1] # Split(Render(e), <<"=">>)[1] =>
            search_args = parse_leboncoin_url(UrlOf(<<e, d>>))

(***************************************************************************)
(* The requests of a crawl whose configuration comes from the input: a     *)
(* URL (possibly with a page argument) or search arguments given directly  *)
(* (possibly with page and limit), against the client of scenario B.       *)
(***************************************************************************)
UrlCrawlArgs ==
    {<<d>> : d \in CoreArgs} \cup {<<RawArg(Arg.page), d>> : d \in CoreArgs}

DirectArgs ==
    {DictSet(NoArgs, Key.text, StrV(<<"v", "e", "l", "o">>)),
     DictSet(DictSet(DictSet(NoArgs, Key.text, StrV(<<"v", "e", "l", "o">>)),
                     Key.page, IntV(7)),
             Key.limit, IntV(50))}

InitUrlCrawl ==
    /\ \E m \in 1..MaxPages, l \in {5, 35} :
         \/ \E descs \in UrlCrawlArgs :
              /\ input_data = [direct_url |-> UrlOf(descs), max_pages |-> m,
                               limit_per_page |-> l]
              /\ hist = [InitHist EXCEPT !.url_args = descs]
         \/ \E d \in DirectArgs :
              /\ input_data = [search_args |-> d, max_pages |-> m,
                               limit_per_page |-> l]
              /\ hist = InitHist
    /\ config = DefaultConfig(NoArgs)
    /\ client = [kind |-> "B"]
    /\ pc = "config"
    /\ seen_ids = {}
    /\ stats = InitStats
    /\ all_ads = <<>>
    /\ batch_ads = <<>>
    /\ page = 1
    /\ page_ads = <<>>
    /\ should_stop = FALSE
    /\ sink = <<>>
    /\ requests = <<>>

NextUrlCrawl == ConfigInit \/ Start \/ ScrapePage \/ FinalPush

SpecUrlCrawl == InitUrlCrawl /\ [][NextUrlCrawl]_vars

\* C20: the i-th request carries page = i and limit =
\* config.limit_per_page, whatever page or limit the search arguments
\* hold, and every other search argument as configured; the arguments
\* parsed from a URL hold no page key; issuing requests leaves
\* config.search_args as Config.__init__ set them.
C20_RequestFrame ==
    pc # "config" =>
        /\ \A i \in 1..Len(requests) :
              /\ DOMAIN requests[i] = DOMAIN search_args \cup {Key.page, Key.limit}
              /\ requests[i][Key.page] = IntV(i)
              /\ requests[i][Key.limit] = IntV(config.limit_per_page)
              /\ \A k \in DOMAIN search_args \ {Key.page, Key.limit} :
                    requests[i][k] = search_args[k]
        /\ "direct_url" \in DOMAIN input_data => Key.page \notin DOMAIN search_args
        /\ config = ConfigOf(input_data)

C20_Witness ==
    /\ Len(requests) = 2
    /\ Key.page \in DOMAIN search_args
    /\ search_args[Key.page] # requests[2][Key.page]
    /\ search_args[Key.limit] # requests[2][Key.limit]

(***************************************************************************)
(* The age gate against DataProcessor.is_ad_too_old.  Times are in hours:  *)
(* a threshold of 84 is 3.5 days.  The client is the one of scenario D,    *)
(* the age of its five dated listings ranging over the half days.          *)
(***************************************************************************)
MaxHalfDays == 20         \* ages 0..MaxHalfDays half days

\* lines 740-753: the date is given by its presence (it is parseable) and
\* by the age now - ad_date; ad_date < now - max_age_days.
is_ad_too_old(date_present, age, max_age_days) ==
    IF max_age_days <= 0 THEN FALSE
    ELSE IF ~date_present THEN FALSE
    ELSE age > max_age_days

InitAge ==
    /\ config \in ScenarioConfigs({1}, {35}, {0, 84, 7 * HoursPerDay})
    /\ client \in [kind : {"D"}, fresh : 1..(consecutive_old_limit - 1),
                   old_age : {12 * k : k \in 0..MaxHalfDays}]
    /\ EngineInit

NextAge == Start \/ ScrapePage \/ PushBatch \/ FinalPush

SpecAge == InitAge /\ [][NextAge]_vars

\* C18 (as stated): for every threshold and every publication time the
\* age gate takes a listing for old (it is left out and counted in the
\* streak) exactly when DataProcessor.is_ad_too_old says so, that is when
\* the threshold is positive and the listing was published before
\* now - max_age; with threshold 0 no listing is old.
C18_AsStated ==
    Len(requests) >= 1 =>
        ((1001 \notin IdsOf(all_ads))
           <=> is_ad_too_old(TRUE, client.old_age, config.max_age_days))

(***************************************************************************)
(* The listings the age gate skips.  The client returns the dated pages:   *)
(* runs of listings 10 days old (identifier 9) around one listing that is  *)
(* 2 days old or has no date; pages hold one listing as far as the batch   *)
(* threshold is concerned.                                                 *)
(***************************************************************************)
InitGate ==
    /\ config \in {c \in Configs : /\ c.limit_per_page = 1
                                   /\ c.delay_between_pages = 0}
    /\ client = [kind |-> "dated"]
    /\ EngineInit

NextGate == Start \/ ScrapePage \/ PushBatch \/ FinalPush

SpecGate == InitGate /\ [][NextGate]_vars

\* C30: with the age gate active, a listing the gate takes for old (it has
\* a publication date and its age in whole days exceeds max_age_days) is
\* never emitted: no record of the output, of the batch buffer or of a
\* batch handed to the sink is such a listing, its identifier is not put
\* into seen_ids, and the counters count the other listings only
\* (stats.unique_ads the emitted records, stats.duplicates the listings
\* met again after they were emitted), whether the run of old listings
\* reaches consecutive_old_limit or not.
C30_OldNeverEmitted ==
    config.max_age_days > 0 =>
      LET old(rec) == /\ rec.has_date
                      /\ (rec.age \div HoursPerDay) * HoursPerDay
                            > config.max_age_days
          handed == Flatten(sink) \o batch_ads
      IN  /\ \A i \in 1..Len(all_ads) : ~old(all_ads[i])
          /\ \A i \in 1..Len(handed) : ~old(handed[i])
          /\ OldAd.id \notin seen_ids
          /\ seen_ids = IdsOf(all_ads)
          /\ stats.unique_ads = Len(all_ads)
          /\ stats.duplicates = hist.later_examined

C30_Witness ==
    /\ pc = "done"
    /\ config.max_age_days > 0
    /\ hist.gate_stopped
    /\ hist.reset_seen
    /\ Len(requests) = 2
    /\ Len(all_ads) = 2
    /\ Flatten(sink) = all_ads
    /\ stats.duplicates = 0

(***************************************************************************)
(* Termination of scrape_from_url.  The client may return a page of new    *)
(* listings for ever (or a page of known listings, an empty page, or       *)
(* raise); the sink accepts every batch.  Between two awaits the coroutine *)
(* runs on its own, and the event loop resumes it once the awaited sleep   *)
(* or push is over: every enabled step is eventually taken.                *)
(***************************************************************************)
InitForever ==
    /\ config \in ScenarioConfigs({-1, 0} \cup 1..MaxScenarioPages, {1}, {0})
    /\ client = [kind |-> "endless"]
    /\ EngineInit

NextForever == Start \/ ScrapePage \/ PushBatch \/ Sleep \/ FinalPush

SpecForever == InitForever /\ [][NextForever]_vars /\ WF_vars(NextForever)

\* C16: every run of scrape_from_url terminates whatever the client
\* returns, after at most max_pages requests when max_pages > 0 and at
\* most 100 requests when max_pages is 0 or negative.
C16_Terminates ==
    /\ <>(pc = "done")
    /\ [](Len(requests) <= IF config.max_pages > 0 THEN config.max_pages
                                                   ELSE DefaultMaxPages)

C16_Witness ==
    /\ pc = "done"
    /\ config.max_pages <= 0
    /\ Len(requests) = DefaultMaxPages
    /\ Len(all_ads) = DefaultMaxPages

\* C21: the pages of one run of scrape_from_url are fetched one after the
\* other: the i-th request asks for page i (no gap, no repetition), the
\* coroutine is at one position at a time and issues no request while it
\* awaits a push or the delay, and the inter-page delay is awaited only
\* with a fetch before it and the fetch of the next page, which is within
\* the page ceiling, after it.
C21_Sequential ==
    /\ \A i \in 1..Len(requests) : requests[i][Key.page] = IntV(i)
    /\ pc \in {"fetch", "sleep"} =>
          /\ page = Len(requests) + 1
          /\ page <= max_pages
    /\ pc = "sleep" =>
          /\ config.delay_between_pages > 0
          /\ Len(requests) >= 1
          /\ ~should_stop
          /\ page_ads # <<>>
    /\ pc \in {"push", "final_push"} => page = Len(requests)
    /\ pc = "done" => page = IF requests = <<>> THEN 1 ELSE Len(requests)

C21_Witness ==
    /\ pc = "sleep"
    /\ config.delay_between_pages > 0
    /\ Len(requests) = 2
    /\ page = 3
    /\ requests[2][Key.page] = IntV(2)

(***************************************************************************)
(* The record normalizer: AdTransformer.create_detailed_ad with            *)
(* DataProcessor.convert_to_serializable, on listing objects given by      *)
(* their attributes.  A datetime is [day, sec, usec]; the clock is one.    *)
(***************************************************************************)
MaxTick == 2              \* clock ticks (half seconds) between two calls

Attr ==
    [id |-> <<"i", "d">>,
     subject |-> <<"s", "u", "b", "j", "e", "c", "t">>,
     first_publication_date |-> <<"f", "i", "r", "s", "t", "_", "p", "u", "b", "l", "i", "c", "a", "t", "i", "o", "n", "_", "d", "a", "t", "e">>,
     images |-> <<"i", "m", "a", "g", "e", "s">>,
     location |-> <<"l", "o", "c", "a", "t", "i", "o", "n">>,
     city |-> <<"c", "i", "t", "y">>,
     zipcode |-> <<"z", "i", "p", "c", "o", "d", "e">>,
     _raw |-> <<"_", "r", "a", "w">>,
     _client |-> <<"_", "c", "l", "i", "e", "n", "t">>,
     is_recent |-> <<"i", "s", "_", "r", "e", "c", "e", "n", "t">>,
     scraped_at |-> <<"s", "c", "r", "a", "p", "e", "d", "_", "a", "t">>,
     search_category |-> <<"s", "e", "a", "r", "c", "h", "_", "c", "a", "t", "e", "g", "o", "r", "y">>,
     search_location |-> <<"s", "e", "a", "r", "c", "h", "_", "l", "o", "c", "a", "t", "i", "o", "n">>]

NoneV == [t |-> "none"]
DatetimeV(day, sec, usec) ==
    [t |-> "datetime", day |-> day, sec |-> sec, usec |-> usec]
SeqV(t, items) == [t |-> t, items |-> items]      \* "list" or "tuple"
DictV(d) == [t |-> "dict", d |-> d]
ObjectV(d) == [t |-> "object", d |-> d]           \* an instance with __dict__
SlotsV(d, repr) == [t |-> "slots", d |-> d, repr |-> repr]  \* one without
MethodV == [t |-> "method"]
Absent == [t |-> "absent"]

\* value.strftime("%Y-%m-%d %H:%M:%S"): the microseconds are dropped
strftime(value) == StrV(NatToStr(value.day) \o <<" ">> \o NatToStr(value.sec))

\* lines 756-782
RECURSIVE convert_to_serializable(_)
convert_to_serializable(value) ==
    IF value.t \in {"none", "str", "int", "bool"} THEN value
    ELSE IF value.t \in {"list", "tuple"}
      THEN SeqV("list", [i \in 1..Len(value.items) |->
                            convert_to_serializable(value.items[i])])
    ELSE IF value.t = "dict"
      THEN DictV([k \in DOMAIN value.d |-> convert_to_serializable(value.d[k])])
    ELSE IF value.t = "datetime" THEN strftime(value)
    ELSE IF value.t = "object"
      THEN DictV([k \in {a \in DOMAIN value.d :
                            /\ ~StartsWith(a, <<"_">>)
                            /\ value.d[a] # NoneV} |->
                    convert_to_serializable(value.d[k])])
    ELSE StrV(value.repr)

\* lines 795-807: the public attributes that are not None (and, for an
\* object without __dict__, not callable)
PublicAttributes(ad) ==
    [k \in {a \in DOMAIN ad.d :
               /\ ~StartsWith(a, <<"_">>)
               /\ ~(ad.t = "slots" /\ ad.d[a] = MethodV)
               /\ ad.d[a] # NoneV} |->
        convert_to_serializable(ad.d[k])]

\* lines 809-813
Stamp(ad_data, context, now) ==
    DictSet(DictSet(DictSet(ad_data, Attr.scraped_at, strftime(now)),
                    Attr.search_category, StrV(context.category)),
            Attr.search_location, StrV(context.location))

\* the record with the publication date read from the clock
create_detailed_ad_dated_now(ad, context, now) ==
    IF Attr.first_publication_date \in DOMAIN PublicAttributes(ad)
      THEN DictSet(Stamp(PublicAttributes(ad), context, now),
                   Attr.first_publication_date, strftime(now))
      ELSE Stamp(PublicAttributes(ad), context, now)

\* create_detailed_ad, the reading of the clock (line 810) made explicit
create_detailed_ad_at(ad, context, now) ==
    Stamp(PublicAttributes(ad), context, now)

\* The listing objects handed to the normalizer
WithAttr(d, key, value) == IF value = Absent THEN d ELSE DictSet(d, key, value)

LocationObjects ==
    {NoneV,
     ObjectV(DictSet(DictSet(DictSet(NoArgs, Attr.city, StrV(<<"L", "y", "o", "n">>)),
                             Attr.zipcode, NoneV),
                     Attr._raw, IntV(7))),
     SlotsV(NoArgs, <<"<", "L", "o", "c", ">">>)}

RawAds ==
    {LET d == WithAttr(WithAttr(WithAttr(WithAttr(WithAttr(
                  DictSet(NoArgs, Attr.id, IntV(1)),
                  Attr.subject, subject),
                  Attr.first_publication_date, date),
                  Attr.images, images),
                  Attr.location, location),
                  Attr._client, private)
     IN  IF slots THEN SlotsV(DictSet(d, Attr.is_recent, MethodV), <<"<", "A", "d", ">">>)
                  ELSE ObjectV(d) :
        subject \in {NoneV, StrV(<<"v", "e", "l", "o">>)},
        date \in {Absent, DatetimeV(3, 5, 0), DatetimeV(3, 5, 1)},
        images \in {Absent, SeqV("list", <<>>),
                    SeqV("list", <<StrV(<<"a">>), NoneV>>),
                    SeqV("tuple", <<IntV(1), IntV(2)>>)},
        location \in LocationObjects,
        private \in {Absent, StrV(<<"c">>)},
        slots \in BOOLEAN}

InitNormalize ==
    /\ \E ad \in RawAds :
         /\ input_data = [ad |-> ad, now |-> DatetimeV(4, 0, 0)]
         /\ hist = [InitHist EXCEPT !.raw_ad = ad]
    /\ config = DefaultConfig(NoArgs)
    /\ client = [kind |-> "unset"]
    /\ pc = "normalize"
    /\ seen_ids = {}
    /\ stats = InitStats
    /\ all_ads = <<>>
    /\ batch_ads = <<>>
    /\ page = 1
    /\ page_ads = <<>>
    /\ should_stop = FALSE
    /\ sink = <<>>
    /\ requests = <<>>

\* the clock, ticks later (two ticks to the second)
Later(now, ticks) ==
    [now EXCEPT !.sec = @ + (now.usec + ticks) \div 2,
                !.usec = (now.usec + ticks) % 2]

\* line 934, on the same listing object again: the attributes are read,
\* nothing is assigned to the object.
Normalize ==
    /\ pc = "normalize"
    /\ Len(page_ads) < 2
    /\ \E ticks \in 0..MaxTick :
         LET now == Later(input_data.now, ticks)
         IN  /\ page_ads' = Append(page_ads,
                   create_detailed_ad_at(input_data.ad, search_context, now))
             /\ input_data' = [input_data EXCEPT !.now = now]
    /\ UNCHANGED <<config, client, pc, seen_ids, stats, all_ads, batch_ads, page,
                   should_stop, sink, requests, hist>>

SpecNormalize == InitNormalize /\ [][Normalize]_vars

====
